---- MODULE Spec2Model ----
(***************************************************************************)
(* twoscomp: a command-line demonstration of two's-complement integers.    *)
(*                                                                         *)
(*     twoscomp bits num                                                   *)
(*                                                                         *)
(* main checks the width, parses the literal (parse_num), sign-extends it  *)
(* to the width (signextend), rejects what does not fit, and prints the    *)
(* number and its two's complement (twoscomp).                             *)
(*                                                                         *)
(* A u128 is a sequence of 128 bits, least significant first: bit k of the *)
(* Rust value is element k+1.  A usize is a sequence of 64 bits.  A string *)
(* is a sequence of one-character strings.                                 *)
(***************************************************************************)
EXTENDS Integers, Sequences, FiniteSets, TLC

VARIABLES
    args,     \* std::env::args(): the program's name, then its arguments
    pc,       \* main's position
    nbits,    \* the parsed width, a usize
    num,      \* the parsed number, a u128 (line 71)
    senum,    \* the number sign-extended to the width (lines 75, 80)
    n2c,      \* its two's complement (line 81)
    outnum,   \* the number as printed in hexadecimal and binary (line 88)
    outn2c,   \* the complement as printed (line 89)
    diag,     \* the diagnostic written to stderr, "" when none
    code,     \* the exit status, Running until the process ends
    shifts    \* the shift amounts evaluated so far

vars == <<args, pc, nbits, num, senum, n2c, outnum, outn2c, diag, code, shifts>>

\* The precision of u128 (src/main.rs line 21, and the literal 128 of lines 36, 87).
U128Bits == 128

\* The precision of usize on the 64-bit targets the program is built for (line 57).
USizeBits == 64

(***************************************************************************)
(* Fixed-width unsigned integers, as Rust's primitive operations compute   *)
(* them.                                                                   *)
(***************************************************************************)

\* A function on 1..n as the sequence of its values.
AsSeq(f) == f \o <<>>

\* The value 0 of width w.
Zero(w) == AsSeq([i \in 1..w |-> 0])

\* !0: all ones.
AllOnes(w) == AsSeq([i \in 1..w |-> 1])

\* 2^k for the k that fit the model checker's integers.
Pow2Table ==
    << 1, 2, 4, 8, 16, 32, 64, 128, 256, 512, 1024, 2048, 4096, 8192, 16384,
       32768, 65536, 131072, 262144, 524288, 1048576, 2097152, 4194304,
       8388608, 16777216, 33554432, 67108864, 134217728, 268435456,
       536870912, 1073741824 >>

Pow2(k) == Pow2Table[k + 1]

\* A small literal v (0 <= v < 2^30), such as `1` or `0b1`, at width w.
Lit(v, w) == AsSeq([i \in 1..w |-> IF i <= 30 THEN (v \div Pow2(i - 1)) % 2 ELSE 0])

\* !a
Not(a) == AsSeq([i \in 1..Len(a) |-> 1 - a[i]])

\* a & b
And(a, b) == AsSeq([i \in 1..Len(a) |-> a[i] * b[i]])

\* a | b
Or(a, b) == AsSeq([i \in 1..Len(a) |-> IF a[i] + b[i] > 0 THEN 1 ELSE 0])

\* a >> k, for a shift amount below the width.  Rust masks a larger amount to
\* the width in a release build (and panics in a debug build, see ShiftOverflows).
Shr(a, k) ==
    LET s == k % Len(a)
    IN  AsSeq([i \in 1..Len(a) |-> IF i + s <= Len(a) THEN a[i + s] ELSE 0])

\* Whether a shift by k of a value of width w overflows.
ShiftOverflows(k, w) == k < 0 \/ k >= w

\* Arithmetic is carried out on limbs of 16 bits, least significant first.
LimbBase == Pow2(16)

\* The value of limb j (from 1) of a.
LimbOf(a, j) ==
    LET RECURSIVE Sum(_)
        Sum(k) == IF k = 16 THEN 0
                  ELSE a[16 * (j - 1) + k + 1] * Pow2(k) + Sum(k + 1)
    IN  Sum(0)

Limbs(a) == AsSeq([j \in 1..(Len(a) \div 16) |-> LimbOf(a, j)])

\* The bits of a sequence of limbs.
FromLimbs(l) ==
    AsSeq([i \in 1..(16 * Len(l)) |->
              (l[((i - 1) \div 16) + 1] \div Pow2((i - 1) % 16)) % 2])

\* The ripple of l * r + c0 over the limbs l, for small r and c0: the limbs of
\* the result, then the carry out of the top limb.
RippleMulAdd(l, r, c0) ==
    LET RECURSIVE Step(_, _)
        Step(j, c) ==
            IF j > Len(l)
            THEN <<c>>
            ELSE LET t == l[j] * r + c
                 IN  <<t % LimbBase>> \o Step(j + 1, t \div LimbBase)
    IN  Step(1, c0)

\* The ripple of la + lb: the limbs of the sum, then the carry out.
RippleAdd(la, lb) ==
    LET RECURSIVE Step(_, _)
        Step(j, c) ==
            IF j > Len(la)
            THEN <<c>>
            ELSE LET t == la[j] + lb[j] + c
                 IN  <<t % LimbBase>> \o Step(j + 1, t \div LimbBase)
    IN  Step(1, 0)

\* The ripple of la - lb: the limbs of the difference, then the borrow out.
RippleSub(la, lb) ==
    LET RECURSIVE Step(_, _)
        Step(j, c) ==
            IF j > Len(la)
            THEN <<c>>
            ELSE LET t == la[j] - lb[j] - c
                 IN  <<(t + LimbBase) % LimbBase>> \o Step(j + 1, IF t < 0 THEN 1 ELSE 0)
    IN  Step(1, 0)

\* The result of a ripple without its carry.
Wrapped(t) == SubSeq(t, 1, Len(t) - 1)

\* a.wrapping_add(b)
WrappingAdd(a, b) == FromLimbs(Wrapped(RippleAdd(Limbs(a), Limbs(b))))

\* a.wrapping_sub(b)
WrappingSub(a, b) == FromLimbs(Wrapped(RippleSub(Limbs(a), Limbs(b))))

\* l.checked_mul(r) on limbs, for a small r: None on overflow.
CheckedMul(l, r) ==
    LET t == RippleMulAdd(l, r, 0)
    IN  [some |-> t[Len(t)] = 0, val |-> Wrapped(t)]

\* l.checked_add(x) on limbs, for a small x: None on overflow.
CheckedAdd(l, x) ==
    LET t == RippleMulAdd(l, 1, x)
    IN  [some |-> t[Len(t)] = 0, val |-> Wrapped(t)]

\* The number of set bits.
CountOnes(a) == Cardinality({i \in 1..Len(a) : a[i] = 1})

\* a.is_power_of_two(): exactly one bit set.
IsPowerOfTwo(a) == CountOnes(a) = 1

\* The value of a as an integer, when it is below 2^30; -1 otherwise.
RECURSIVE LowValue(_, _)
LowValue(a, i) ==
    IF i > 30 \/ i > Len(a) THEN 0 ELSE a[i] * Pow2(i - 1) + LowValue(a, i + 1)

ToInt(a) == IF \E i \in 31..Len(a) : a[i] = 1 THEN -1 ELSE LowValue(a, 1)

(***************************************************************************)
(* Strings and the standard library's integer parser.                      *)
(***************************************************************************)

\* The digits of char::to_digit, in the order of their values.
Digits36 ==
    << "0", "1", "2", "3", "4", "5", "6", "7", "8", "9",
       "a", "b", "c", "d", "e", "f", "g", "h", "i", "j", "k", "l", "m",
       "n", "o", "p", "q", "r", "s", "t", "u", "v", "w", "x", "y", "z" >>

UpperLetters ==
    << "A", "B", "C", "D", "E", "F", "G", "H", "I", "J", "K", "L", "M",
       "N", "O", "P", "Q", "R", "S", "T", "U", "V", "W", "X", "Y", "Z" >>

NoDigit == 0 - 1

\* c.to_digit(radix): the digit's value, or NoDigit.  Letters count in
\* either case; a value of radix or more is no digit.
ToDigit(c, radix) ==
    LET v == IF \E i \in 1..36 : Digits36[i] = c
             THEN (CHOOSE i \in 1..36 : Digits36[i] = c) - 1
             ELSE IF \E i \in 1..26 : UpperLetters[i] = c
             THEN (CHOOSE i \in 1..26 : UpperLetters[i] = c) + 9
             ELSE NoDigit
    IN  IF v # NoDigit /\ v < radix THEN v ELSE NoDigit

\* s.starts_with(p)
StartsWith(s, p) == Len(s) >= Len(p) /\ SubSeq(s, 1, Len(p)) = p

\* &s[k..]
SliceFrom(s, k) == SubSeq(s, k + 1, Len(s))

Ok(v) == [ok |-> TRUE, err |-> "none", val |-> v]
Err(kind, w) == [ok |-> FALSE, err |-> kind, val |-> Zero(w)]

\* The digit loop of from_str_radix, the result held as limbs:
\* result = result * radix + digit, an invalid digit or an overflow ending it.
RECURSIVE ParseDigits(_, _, _, _)
ParseDigits(digits, radix, i, result) ==
    IF i > Len(digits)
    THEN Ok(FromLimbs(result))
    ELSE LET x == ToDigit(digits[i], radix)
             mul == CheckedMul(result, radix)
         IN  IF x = NoDigit THEN Err("InvalidDigit", 16 * Len(result))
             ELSE IF ~mul.some THEN Err("PosOverflow", 16 * Len(result))
             ELSE LET sum == CheckedAdd(mul.val, x)
                  IN  IF ~sum.some THEN Err("PosOverflow", 16 * Len(result))
                      ELSE ParseDigits(digits, radix, i + 1, sum.val)

\* <unsigned>::from_str_radix(src, radix) at width w: an empty string and a
\* lone sign are errors, one leading '+' is skipped, '-' is no sign for an
\* unsigned type.
FromStrRadix(src, radix, w) ==
    IF src = <<>> THEN Err("Empty", w)
    ELSE IF src = <<"+">> \/ src = <<"-">> THEN Err("InvalidDigit", w)
    ELSE ParseDigits(IF src[1] = "+" THEN Tail(src) ELSE src, radix, 1,
                     Limbs(Zero(w)))

(***************************************************************************)
(* The program's functions.                                                *)
(***************************************************************************)

\* RadixOf with the octal arm tried before the prefixes: every "0x", "0t" and
\* "0b" literal is read as octal.
RadixOf_OctalFirst(s) ==
    IF s = <<"0">> THEN [radix |-> 10, numstr |-> <<"0">>]
    ELSE IF StartsWith(s, <<"0">>)
         THEN [radix |-> 8, numstr |-> SliceFrom(s, 0)]
    ELSE IF StartsWith(s, <<"0", "x">>) \/ StartsWith(s, <<"0", "X">>)
         THEN [radix |-> 16, numstr |-> SliceFrom(s, 2)]
    ELSE IF StartsWith(s, <<"0", "t">>) \/ StartsWith(s, <<"0", "T">>)
         THEN [radix |-> 10, numstr |-> SliceFrom(s, 2)]
    ELSE IF StartsWith(s, <<"0", "b">>) \/ StartsWith(s, <<"0", "B">>)
         THEN [radix |-> 2, numstr |-> SliceFrom(s, 2)]
    ELSE [radix |-> 10, numstr |-> s]

\* The match of parse_num on the sign-stripped literal: the radix and the
\* digit string, the arms tried in order.
RadixOf(s) ==
    IF s = <<"0">> THEN [radix |-> 10, numstr |-> <<"0">>]
    ELSE IF StartsWith(s, <<"0", "x">>) \/ StartsWith(s, <<"0", "X">>)
         THEN [radix |-> 16, numstr |-> SliceFrom(s, 2)]
    ELSE IF StartsWith(s, <<"0", "t">>) \/ StartsWith(s, <<"0", "T">>)
         THEN [radix |-> 10, numstr |-> SliceFrom(s, 2)]
    ELSE IF StartsWith(s, <<"0", "b">>) \/ StartsWith(s, <<"0", "B">>)
         THEN [radix |-> 2, numstr |-> SliceFrom(s, 2)]
    ELSE IF StartsWith(s, <<"0">>)
         THEN [radix |-> 8, numstr |-> SliceFrom(s, 0)]
    ELSE [radix |-> 10, numstr |-> s]

\* ApplySign negating by the bitwise complement alone.
ApplySign_OnesComplement(pos, n) == IF pos THEN n ELSE Not(n)

\* The sign applied to the parsed digits (line 32).
ApplySign(pos, n) == IF pos THEN n ELSE WrappingSub(Zero(U128Bits), n)

parse_num(numstr) ==
    LET pos == ~StartsWith(numstr, <<"-">>)
        m == RadixOf(SliceFrom(numstr, IF pos THEN 0 ELSE 1))
        r == FromStrRadix(m.numstr, m.radix, U128Bits)
    IN  IF r.ok THEN Ok(ApplySign(pos, r.val)) ELSE r

\* signextend leaving a non-negative value unmasked.
signextend_NoMask(n, nb) ==
    LET mask == Shr(AllOnes(U128Bits), U128Bits - nb)
        neg == And(Shr(n, nb - 1), Lit(1, U128Bits)) = Lit(1, U128Bits)
    IN  IF neg THEN Or(n, Not(mask)) ELSE n

\* signextend testing bit nbits for the sign.
signextend_SignAtWidth(n, nb) ==
    LET mask == Shr(AllOnes(U128Bits), U128Bits - nb)
        neg == And(Shr(n, nb), Lit(1, U128Bits)) = Lit(1, U128Bits)
    IN  IF neg THEN Or(n, Not(mask)) ELSE And(n, mask)

signextend(n, nb) ==
    LET mask == Shr(AllOnes(U128Bits), U128Bits - nb)
        neg == And(Shr(n, nb - 1), Lit(1, U128Bits)) = Lit(1, U128Bits)
    IN  IF neg THEN Or(n, Not(mask)) ELSE And(n, mask)

\* twoscomp without the increment: the one's complement.
twoscomp_NoIncrement(n) == Not(n)

\* twoscomp without the complement.
twoscomp_NoComplement(n) == WrappingAdd(n, Lit(1, U128Bits))

twoscomp(n) ==
    LET onescomp == Not(n)
    IN  WrappingAdd(onescomp, Lit(1, U128Bits))

(***************************************************************************)
(* main, one action for each of its steps.                                 *)
(***************************************************************************)

\* The bounds of the width (line 65).
MinWidth == 4
MaxWidth == 128

\* The exit status while the process runs; a panic leaves none.
Running == 0 - 1

\* nbitstr.parse::<usize>() (line 57): a decimal parse.
parse_nbits(nbitstr) == FromStrRadix(nbitstr, 10, USizeBits)

\* (4..=128).contains(&nbits) (line 65).
WidthInRange(n) ==
    LET v == ToInt(n) IN v # -1 /\ MinWidth <= v /\ v <= MaxWidth

\* The width checks of lines 61 to 68: "" when the width passes.
WidthDiag(n) ==
    IF ~IsPowerOfTwo(n) THEN "not_power_of_two"
    ELSE IF ~WidthInRange(n) THEN "width_out_of_range"
    ELSE ""

\* The range test refusing every magnitude that is not canonical.
OutOfRange_Strict(n, se, nb) == n # se

\* The range test of line 76.
OutOfRange(n, se, nb) == n # se /\ Shr(n, nb) # Zero(U128Bits)

\* The shift amounts signextend evaluates (lines 36, 37).
SignextendShifts(nb) == {U128Bits - nb, nb - 1}

\* The range test evaluating both operands.
RangeTestShifts_NoShortCircuit(n, se, nb) == {nb}

\* The shift amount the range test evaluates: && does not evaluate its
\* right operand when the left one is false (line 76).
RangeTestShifts(n, se, nb) == IF n # se THEN {nb} ELSE {}

\* The shift amount the display mask evaluates (line 87).
MaskShifts(nb) == {U128Bits - nb}

\* The display mask of line 87.
DisplayMask(nb) == Shr(AllOnes(U128Bits), U128Bits - nb)

\* Where a step that evaluated the shifts ks goes: an overflowing shift
\* panics in a debug build and is masked in a release build.
After(ks, next) ==
    IF \E k \in ks : ShiftOverflows(k, U128Bits) THEN {"panic", next} ELSE {next}

Exit(d) ==
    /\ pc' = "exit"
    /\ diag' = d
    /\ code' = 1

\* Lines 51 to 55.
CheckArgs ==
    /\ pc = "start"
    /\ IF Len(args) # 3
       THEN Exit("usage")
       ELSE pc' = "parse_nbits" /\ UNCHANGED <<diag, code>>
    /\ UNCHANGED <<args, nbits, num, senum, n2c, outnum, outn2c, shifts>>

\* Lines 56 to 60.
ParseNbits ==
    /\ pc = "parse_nbits"
    /\ LET r == parse_nbits(args[2])
       IN  IF ~r.ok
           THEN Exit("bad_nbits") /\ UNCHANGED nbits
           ELSE pc' = "check_width" /\ nbits' = r.val /\ UNCHANGED <<diag, code>>
    /\ UNCHANGED <<args, num, senum, n2c, outnum, outn2c, shifts>>

\* Lines 61 to 69.
CheckWidth ==
    /\ pc = "check_width"
    /\ IF WidthDiag(nbits) # ""
       THEN Exit(WidthDiag(nbits))
       ELSE pc' = "parse_num" /\ UNCHANGED <<diag, code>>
    /\ UNCHANGED <<args, nbits, num, senum, n2c, outnum, outn2c, shifts>>

\* Lines 70 to 74.
ParseNum ==
    /\ pc = "parse_num"
    /\ LET r == parse_num(args[3])
       IN  IF ~r.ok
           THEN Exit("bad_number") /\ UNCHANGED num
           ELSE pc' = "normalize" /\ num' = r.val /\ UNCHANGED <<diag, code>>
    /\ UNCHANGED <<args, nbits, senum, n2c, outnum, outn2c, shifts>>

\* Lines 75 to 80.
Normalize ==
    /\ pc = "normalize"
    /\ LET nb == ToInt(nbits)
           se == signextend(num, nb)
           ks == SignextendShifts(nb) \cup RangeTestShifts(num, se, nb)
       IN  /\ senum' = se
           /\ shifts' = shifts \cup ks
           /\ \E next \in After(ks, IF OutOfRange(num, se, nb) THEN "exit" ELSE "complement") :
                 /\ pc' = next
                 /\ diag' = IF next = "exit" THEN "out_of_range" ELSE diag
                 /\ code' = IF next = "exit" THEN 1 ELSE code
    /\ UNCHANGED <<args, nbits, num, n2c, outnum, outn2c>>

\* Line 81.
Complement ==
    /\ pc = "complement"
    /\ LET nb == ToInt(nbits)
           ks == SignextendShifts(nb)
       IN  /\ n2c' = signextend(twoscomp(senum), nb)
           /\ shifts' = shifts \cup ks
           /\ pc' \in After(ks, "display")
    /\ UNCHANGED <<args, nbits, num, senum, outnum, outn2c, diag, code>>

\* Lines 83 to 91: the patterns printed in hexadecimal and binary are the low
\* nbits bits; the decimal is the full-precision pattern read as an i128.
Display ==
    /\ pc = "display"
    /\ LET nb == ToInt(nbits)
           ks == MaskShifts(nb)
           mask == DisplayMask(nb)
       IN  /\ outnum' = And(senum, mask)
           /\ outn2c' = And(n2c, mask)
           /\ shifts' = shifts \cup ks
           /\ \E next \in After(ks, "done") :
                 /\ pc' = next
                 /\ code' = IF next = "panic" THEN code ELSE 0
    /\ UNCHANGED <<args, nbits, num, senum, n2c, diag>>

Next ==
    \/ CheckArgs
    \/ ParseNbits
    \/ CheckWidth
    \/ ParseNum
    \/ Normalize
    \/ Complement
    \/ Display

(***************************************************************************)
(* The inputs.                                                             *)
(***************************************************************************)

\* The largest value of the low bits of a generated pattern.
MaxLow == 2

\* v in the given radix, as Rust's {:x}, {:o}, {:b} and {} write it.
RECURSIVE Format(_, _)
Format(v, radix) ==
    IF v < radix THEN <<Digits36[v + 1]>>
    ELSE Format(v \div radix, radix) \o <<Digits36[(v % radix) + 1]>>

\* The widths the program accepts, and how the command line may spell them.
AcceptedWidths == {4, 8, 16, 32, 64, 128}

AcceptedWidthArgs == {Format(n, 10) : n \in AcceptedWidths}

\* Other spellings usize's parser takes.
SpelledWidthArgs == {<<"+", "8">>, <<"0", "8">>, <<"0", "1", "2", "8">>}

\* Width arguments the program refuses.
RejectedWidthArgs ==
    { <<"0">>,
      <<"1">>,
      <<"2">>,
      <<"3">>,
      <<"6">>,
      <<"1", "2">>,
      <<"1", "0", "0">>,
      <<"1", "2", "9">>,
      <<"2", "5", "6">>,
      <<"5", "1", "2">>,
      <<"9", "2", "2", "3", "3", "7", "2", "0", "3", "6", "8", "5", "4", "7", "7", "5", "8", "0", "8">>,
      <<"1", "8", "4", "4", "6", "7", "4", "4", "0", "7", "3", "7", "0", "9", "5", "5", "1", "6", "1", "6">>,
      <<"x">>,
      <<>>,
      <<"-", "8">>,
      <<"0", "x", "8">> }

\* A u128 as 32 hexadecimal digits, most significant first.
Hex(a) ==
    [j \in 1..(Len(a) \div 4) |->
        LET b == Len(a) - 4 * j
        IN  Digits36[a[b + 1] + 2 * a[b + 2] + 4 * a[b + 3] + 8 * a[b + 4] + 1]]
        \o <<>>

\* The patterns around the boundaries of width n: the low bits hold lo, bit
\* n-1 is s, bit n is e, the bits above are fill, and the top bit is top.
Pattern(n, lo, s, e, fill, top) ==
    AsSeq([i \in 1..U128Bits |->
        LET k == i - 1
        IN  IF k = n - 1 THEN s
            ELSE IF k < n - 1 THEN (IF k < 30 THEN (lo \div Pow2(k)) % 2 ELSE 0)
            ELSE IF k = n THEN e
            ELSE IF k = U128Bits - 1 THEN top
            ELSE fill])

Patterns ==
    {Pattern(n, lo, s, e, fill, top) :
        n \in AcceptedWidths, lo \in 0..MaxLow, s \in 0..1, e \in 0..1,
        fill \in 0..1, top \in 0..1}

\* The patterns written as hexadecimal literals, with and without a sign.
PatternLiterals ==
    {sign \o <<"0", "x">> \o Hex(p) : sign \in {<<>>, <<"-">>}, p \in Patterns}

\* Literals of the documentation and of the edges of the parser.
ScenarioLiterals ==
    { <<"5">>,
      <<"-", "5">>,
      <<"0", "x", "8", "0">>,
      <<"0", "X", "8", "0">>,
      <<"2", "5", "6">>,
      <<"2", "5", "5">>,
      <<"1", "2", "8">>,
      <<"-", "1", "2", "8">>,
      <<"-", "1", "2", "9">>,
      <<"-", "2", "0", "0">>,
      <<"0", "x", "1", "8", "0">>,
      <<"0">>,
      <<"-", "0">>,
      <<"0", "0">>,
      <<"-", "1">>,
      <<"7">>,
      <<"8">>,
      <<"-", "8">>,
      <<"-", "9">>,
      <<"1", "5">>,
      <<"1", "6">>,
      <<"0", "x", "1", "0">>,
      <<"0", "t", "1", "6">>,
      <<"0", "b", "1", "0", "0", "0", "0">>,
      <<"0", "2", "0">>,
      <<"0", "T", "1", "6">>,
      <<"0", "B", "1", "0", "0", "0", "0">>,
      <<"0", "x", "F", "f">>,
      <<"0", "b", "2">>,
      <<"0", "8">>,
      <<"0", "t">>,
      <<"0", "x">>,
      <<"0", "b">>,
      <<>>,
      <<"-">>,
      <<"+">>,
      <<"+", "5">>,
      <<"-", "+", "5">>,
      <<"0", "x", "+", "1", "0">>,
      <<"-", "-", "5">>,
      <<"0", "x", "g">>,
      <<"1", " ">>,
      <<"1", "2", "a">>,
      <<"3", "4", "0", "2", "8", "2", "3", "6", "6", "9", "2", "0", "9", "3", "8", "4", "6", "3", "4", "6", "3", "3", "7", "4", "6", "0", "7", "4", "3", "1", "7", "6", "8", "2", "1", "1", "4", "5", "5">>,
      <<"3", "4", "0", "2", "8", "2", "3", "6", "6", "9", "2", "0", "9", "3", "8", "4", "6", "3", "4", "6", "3", "3", "7", "4", "6", "0", "7", "4", "3", "1", "7", "6", "8", "2", "1", "1", "4", "5", "6">>,
      <<"-", "3", "4", "0", "2", "8", "2", "3", "6", "6", "9", "2", "0", "9", "3", "8", "4", "6", "3", "4", "6", "3", "3", "7", "4", "6", "0", "7", "4", "3", "1", "7", "6", "8", "2", "1", "1", "4", "5", "5">>,
      <<"0", "x", "1", "0", "0", "0", "0", "0", "0", "0", "0", "0", "0", "0", "0", "0", "0", "0", "0", "0", "0", "0", "0", "0", "0", "0", "0", "0", "0", "0", "0", "0", "0", "0", "0">>,
      <<"1", "7", "0", "1", "4", "1", "1", "8", "3", "4", "6", "0", "4", "6", "9", "2", "3", "1", "7", "3", "1", "6", "8", "7", "3", "0", "3", "7", "1", "5", "8", "8", "4", "1", "0", "5", "7", "2", "8">>,
      <<"-", "1", "7", "0", "1", "4", "1", "1", "8", "3", "4", "6", "0", "4", "6", "9", "2", "3", "1", "7", "3", "1", "6", "8", "7", "3", "0", "3", "7", "1", "5", "8", "8", "4", "1", "0", "5", "7", "2", "8">>,
      <<"-", "1", "7", "0", "1", "4", "1", "1", "8", "3", "4", "6", "0", "4", "6", "9", "2", "3", "1", "7", "3", "1", "6", "8", "7", "3", "0", "3", "7", "1", "5", "8", "8", "4", "1", "0", "5", "7", "2", "9">> }

Literals == ScenarioLiterals \cup PatternLiterals

Program == <<"t", "w", "o", "s", "c", "o", "m", "p">>

ArgVectors ==
    {<<Program, w, l>> : w \in AcceptedWidthArgs, l \in Literals}
        \cup {<<Program, w, l>> :
                w \in RejectedWidthArgs \cup SpelledWidthArgs,
                l \in {<<"5">>, <<"2", "5", "6">>, <<"x">>}}
        \cup {<<Program>>, <<Program, <<"8">> >>, <<Program, <<"8">>, <<"5">>, <<"5">> >>}

\* The state after construction, for one command line.
Start(argsets) ==
    /\ args \in argsets
    /\ pc = "start"
    /\ nbits = Zero(USizeBits)
    /\ num = Zero(U128Bits)
    /\ senum = Zero(U128Bits)
    /\ n2c = Zero(U128Bits)
    /\ outnum = Zero(U128Bits)
    /\ outn2c = Zero(U128Bits)
    /\ diag = ""
    /\ code = Running
    /\ shifts = {}

Init == Start(ArgVectors)

Spec == Init /\ [][Next]_vars

(***************************************************************************)
(* The inputs of the parser: every string over a small alphabet, and small *)
(* numbers written in each radix, at one width.                            *)
(***************************************************************************)

\* The longest enumerated literal.
MaxLen == 3

\* The largest number written in each radix.
MaxVal == 40

Alphabet == {"-", "+", "0", "1", "8", "f", "x", "b", "t"}

RECURSIVE Strings(_)
Strings(n) ==
    IF n = 0 THEN {<<>>}
    ELSE Strings(n - 1) \cup {Append(t, c) : t \in Strings(n - 1), c \in Alphabet}

\* v written with the prefix of each radix.
Written(v) ==
    { <<"0", "x">> \o Format(v, 16), <<"0", "t">> \o Format(v, 10),
      <<"0", "b">> \o Format(v, 2), <<"0">> \o Format(v, 8), Format(v, 10) }

WrittenLiterals ==
    UNION {{sign \o l : sign \in {<<>>, <<"-">>}, l \in Written(v)} : v \in 0..MaxVal}

ParseLiterals == Strings(MaxLen) \cup WrittenLiterals \cup ScenarioLiterals

InitParse == Start({<<Program, <<"8">>, l>> : l \in ParseLiterals})

SpecParse == InitParse /\ [][Next]_vars

(***************************************************************************)
(* What the properties speak of.                                           *)
(***************************************************************************)

\* The width as a number, once the width checks have passed.
N == ToInt(nbits)

\* The literal of the command line.
Literal == args[3]

\* parse_num has returned a number.
Parsed == pc \in {"normalize", "complement", "display", "done"}
              \/ (pc = "exit" /\ diag = "out_of_range")

\* parse_num has returned an error.
ParseFailed == pc = "exit" /\ diag = "bad_number"

\* The range check has run, and what it decided.
Rejected == pc = "exit" /\ diag = "out_of_range"
Accepted == pc \in {"complement", "display", "done"}
Normalized == Accepted \/ Rejected

\* The complement has been computed.
Complemented == pc \in {"display", "done"}

\* Bit k (from 0) of a.
Bit(a, k) == a[k + 1]

\* All bits of a at positions k and above are clear, or set.
HighClear(a, k) == \A i \in k..(Len(a) - 1) : Bit(a, i) = 0
HighSet(a, k) == \A i \in k..(Len(a) - 1) : Bit(a, i) = 1

\* a and b agree on their low k bits.
SameLow(a, b, k) == \A i \in 0..(k - 1) : Bit(a, i) = Bit(b, i)

\* 1 << k
OneShl(k) == AsSeq([i \in 1..U128Bits |-> IF i = k + 1 THEN 1 ELSE 0])

\* complement(p, n) of the specification: line 81.
complement(p, n) == signextend(twoscomp(p), n)

(***************************************************************************)
(* C1.  The range check rejects a parsed magnitude exactly when it is      *)
(* neither an n-bit unsigned value (all bits at positions >= n clear) nor  *)
(* the sign extension of a negative n-bit value (all bits at positions     *)
(* >= n-1 set).                                                            *)
(***************************************************************************)
C1_RangeCheck ==
    Normalized =>
        (Rejected <=> (~HighClear(num, N) /\ ~HighSet(num, N - 1)))

\* 0x180 at width 8 is rejected: bit 7 is set, the bits above are not all set.
C1_Witness ==
    /\ Rejected
    /\ N = 8
    /\ num = Lit(384, U128Bits)

(***************************************************************************)
(* C2.  A well-formed literal (optional '-', prefix, digits of the radix,  *)
(* magnitude below 2^128) denoting the integer v is accepted at width n if *)
(* and only if -2^(n-1) <= v <= 2^n - 1.                                   *)
(***************************************************************************)

\* The literal has a '-' sign.
Negative == StartsWith(Literal, <<"-">>)

\* The digit string of the literal: the sign and the prefix stripped.
DigitString == RadixOf(SliceFrom(Literal, IF Negative THEN 1 ELSE 0))

\* Every character of the digit string is a digit of the radix.
DigitsValid ==
    /\ DigitString.numstr # <<>>
    /\ \A i \in 1..Len(DigitString.numstr) :
          ToDigit(DigitString.numstr[i], DigitString.radix) # NoDigit

\* The magnitude the digits denote, recovered from the wrapped number.
Magnitude == IF Negative THEN WrappingSub(Zero(U128Bits), num) ELSE num

\* -2^(n-1) <= v <= 2^n - 1, for v the literal's integer.
Fits ==
    IF Negative
    THEN HighClear(Magnitude, N - 1) \/ Magnitude = OneShl(N - 1)
    ELSE HighClear(Magnitude, N)

C2_AcceptedIffFits ==
    (Normalized /\ DigitsValid) => (Accepted <=> Fits)

\* What the code does instead: a magnitude within 2^n of 2^128 wraps onto a
\* value that fits.
NearWrap ==
    IF Negative
    THEN Magnitude # Zero(U128Bits) /\ HighClear(num, N)
    ELSE HighSet(Magnitude, N - 1)

C2_AcceptedIffFitsOrWraps ==
    (Normalized /\ DigitsValid) => (Accepted <=> (Fits \/ NearWrap))

(***************************************************************************)
(* C3.  The complement is the additive inverse modulo 2^n: for the         *)
(* normalized pattern p and its complement c, (p + c) mod 2^n = 0.         *)
(***************************************************************************)
C3_AdditiveInverse ==
    Complemented => SameLow(WrappingAdd(senum, n2c), Zero(U128Bits), N)

\* 5 at width 8: the complement is 0xfb.
C3_Witness ==
    /\ pc = "done"
    /\ N = 8
    /\ outnum = Lit(5, U128Bits)
    /\ outn2c = Lit(251, U128Bits)

(***************************************************************************)
(* C4.  Double complement: for every normalized pattern p other than the   *)
(* most negative value, complement(complement(p, n), n) = p.               *)
(***************************************************************************)
C4_DoubleComplement ==
    (Complemented /\ senum # signextend(OneShl(N - 1), N)) =>
        complement(n2c, N) = senum

\* -5 at width 8: the complement is 5, and its complement is -5 again.
C4_Witness ==
    /\ pc = "done"
    /\ N = 8
    /\ outnum = Lit(251, U128Bits)
    /\ outn2c = Lit(5, U128Bits)
    /\ complement(n2c, N) = senum

(***************************************************************************)
(* C5.  The most negative value is its own complement.  As stated:         *)
(* signextend(twoscomp(1 << (n-1)), n) equals 1 << (n-1) for every         *)
(* accepted width n.                                                       *)
(***************************************************************************)
C5_FixedPointAsStated ==
    Parsed => complement(OneShl(N - 1), N) = OneShl(N - 1)

(***************************************************************************)
(* C5, amended.  For every accepted width n, the complement of 1 << (n-1)  *)
(* is the sign extension of 1 << (n-1): it agrees with 1 << (n-1) on the   *)
(* low n bits.  The program accepts the value, computes its normalized     *)
(* pattern as its own complement, and prints 1 << (n-1) for both.          *)
(***************************************************************************)
C5_FixedPoint ==
    /\ Parsed =>
          /\ complement(OneShl(N - 1), N) = signextend(OneShl(N - 1), N)
          /\ SameLow(complement(OneShl(N - 1), N), OneShl(N - 1), N)
    /\ (Normalized /\ num = OneShl(N - 1)) => Accepted
    /\ (Complemented /\ senum = signextend(OneShl(N - 1), N)) => n2c = senum
    /\ (pc = "done" /\ senum = signextend(OneShl(N - 1), N)) =>
          /\ outnum = OneShl(N - 1)
          /\ outn2c = OneShl(N - 1)
          /\ code = 0

\* 0x80 at width 8 runs to the end.
C5_Witness ==
    /\ pc = "done"
    /\ N = 8
    /\ num = OneShl(7)
    /\ outn2c = OneShl(7)
    /\ n2c # OneShl(7)

(***************************************************************************)
(* C6.  Canonical form: in the normalized pattern and in the complement    *)
(* all bits at positions >= n equal bit n-1, and sign-extending either     *)
(* again returns it unchanged.                                             *)
(***************************************************************************)
Canonical(a, n) == \A i \in n..(Len(a) - 1) : Bit(a, i) = Bit(a, n - 1)

C6_Canonical ==
    /\ Normalized => (Canonical(senum, N) /\ signextend(senum, N) = senum)
    /\ Complemented => (Canonical(n2c, N) /\ signextend(n2c, N) = n2c)

\* 0x180 at width 8 is rejected; its normalized pattern is the sign
\* extension of 0x80.
C6_Witness ==
    /\ Rejected
    /\ N = 8
    /\ num = Lit(384, U128Bits)
    /\ senum = signextend(Lit(128, U128Bits), 8)
    /\ HighSet(senum, 7)

(***************************************************************************)
(* C7.  parse_num fails for every literal whose digit string, after        *)
(* stripping the optional '-' and the radix prefix, contains a character   *)
(* that is not a digit of the radix, or is empty, or denotes a magnitude   *)
(* of 2^128 or more.                                                       *)
(***************************************************************************)

\* The digits evaluated at a precision of 192 bits, wide enough for every
\* literal of the inputs.
WideDigits == FromStrRadix(DigitString.numstr, DigitString.radix, 192)

\* The digits denote 2^128 or more.
Overflowing ==
    DigitsValid /\ (~WideDigits.ok \/ ~HighClear(WideDigits.val, U128Bits))

C7_MalformedFails ==
    (Parsed \/ ParseFailed) =>
        ((~DigitsValid \/ Overflowing) => ParseFailed)

\* What the code does instead: one '+' before the digits is skipped.
DigitsValidAfterPlus ==
    LET ds == DigitString.numstr
        rest == IF Len(ds) >= 2 /\ ds[1] = "+" THEN Tail(ds) ELSE ds
    IN  /\ rest # <<>>
        /\ \A i \in 1..Len(rest) : ToDigit(rest[i], DigitString.radix) # NoDigit

C7_FailsExceptPlus ==
    (Parsed \/ ParseFailed) =>
        (ParseFailed <=>
            (~DigitsValidAfterPlus \/ ~WideDigits.ok
                \/ ~HighClear(WideDigits.val, U128Bits)))

(***************************************************************************)
(* C8.  Radix dispatch and equivalence: on the sign-stripped literal the   *)
(* radix is chosen in the order bare "0" (decimal zero), 0x/0X (hex),      *)
(* 0t/0T (decimal), 0b/0B (binary), any other leading 0 (octal, the zero   *)
(* kept), otherwise decimal, and the result is the value of the remaining  *)
(* digits in that radix; the same number written in each radix parses to   *)
(* the same magnitude, and "0x10", "0t16", "0b10000", "020" all yield 16.  *)
(***************************************************************************)

\* The radix and the digits the order of the arms gives, stated without it.
Expected(s) ==
    LET second == IF Len(s) >= 2 THEN s[2] ELSE ""
        zero == Len(s) >= 1 /\ s[1] = "0"
    IN  IF zero /\ second \in {"x", "X"} THEN [radix |-> 16, digits |-> SubSeq(s, 3, Len(s))]
        ELSE IF zero /\ second \in {"t", "T"} THEN [radix |-> 10, digits |-> SubSeq(s, 3, Len(s))]
        ELSE IF zero /\ second \in {"b", "B"} THEN [radix |-> 2, digits |-> SubSeq(s, 3, Len(s))]
        ELSE IF zero /\ Len(s) >= 2 THEN [radix |-> 8, digits |-> s]
        ELSE [radix |-> 10, digits |-> s]

\* The value of a short digit string, by integer arithmetic.
RECURSIVE IntValue(_, _)
IntValue(ds, radix) ==
    IF ds = <<>> THEN 0
    ELSE IntValue(SubSeq(ds, 1, Len(ds) - 1), radix) * radix + ToDigit(ds[Len(ds)], radix)

Sixteen ==
    { <<"0", "x", "1", "0">>, <<"0", "t", "1", "6">>,
      <<"0", "b", "1", "0", "0", "0", "0">>, <<"0", "2", "0">> }

C8_RadixDispatch ==
    ((Parsed \/ ParseFailed) /\ ~Negative) =>
        LET e == Expected(Literal)
        IN  /\ ( /\ e.digits # <<>>
                 /\ Len(e.digits) <= 7
                 /\ \A i \in 1..Len(e.digits) : ToDigit(e.digits[i], e.radix) # NoDigit )
               => (Parsed /\ num = Lit(IntValue(e.digits, e.radix), U128Bits))
            /\ \A v \in 0..MaxVal :
                  Literal \in Written(v) => (Parsed /\ num = Lit(v, U128Bits))
            /\ Literal \in Sixteen => (Parsed /\ num = Lit(16, U128Bits))

\* "0b10000" has been parsed as 16.
C8_Witness ==
    /\ pc = "normalize"
    /\ Literal = <<"0", "b", "1", "0", "0", "0", "0">>
    /\ num = Lit(16, U128Bits)

(***************************************************************************)
(* C9.  A negative literal is the modular negation of its positive form:   *)
(* when s has no leading '-' and parses to m, "-" + s parses to            *)
(* (0 - m) mod 2^128; "-0" parses to 0 as "0" does.                        *)
(***************************************************************************)
C9_NegativeIsNegation ==
    ((pc = "normalize" \/ ParseFailed) /\ Negative) =>
        LET s == Tail(Literal)
            m == parse_num(s)
        IN  /\ (~StartsWith(s, <<"-">>) /\ m.ok) =>
                  /\ pc = "normalize"
                  /\ WrappingAdd(num, m.val) = Zero(U128Bits)
            /\ Literal = <<"-", "0">> =>
                  (pc = "normalize" /\ num = Zero(U128Bits) /\ num = parse_num(<<"0">>).val)

\* "-5" has been parsed: the number is 2^128 - 5.
C9_Witness ==
    /\ pc = "normalize"
    /\ Literal = <<"-", "5">>
    /\ HighSet(num, 3)
    /\ SameLow(num, Lit(3, U128Bits), 3)

(***************************************************************************)
(* C10.  No shift overflows: the width checks admit exactly the widths 4,  *)
(* 8, 16, 32, 64 and 128, every shift evaluated has an amount in 0..127,   *)
(* and at width 128 signextend is the identity, the range test's shift is  *)
(* not evaluated and nothing is rejected.                                  *)
(***************************************************************************)
WidthChecked ==
    \/ pc \in {"parse_num", "normalize", "complement", "display", "done"}
    \/ (pc = "exit" /\ diag \in {"bad_number", "out_of_range"})

WidthRefused == pc = "exit" /\ diag \in {"not_power_of_two", "width_out_of_range"}

C10_NoShiftOverflow ==
    /\ pc # "panic"
    /\ \A k \in shifts : 0 <= k /\ k <= 127
    /\ WidthChecked => N \in {4, 8, 16, 32, 64, 128}
    /\ WidthRefused => N \notin {4, 8, 16, 32, 64, 128}
    /\ (Normalized /\ N = 128) => (senum = num /\ Accepted /\ 128 \notin shifts)

\* A number with the top bit set, at width 128, runs to the end.
C10_Witness ==
    /\ pc = "done"
    /\ N = 128
    /\ Bit(num, 127) = 1
    /\ Bit(num, 126) = 0
    /\ shifts = {0, 127}

====
